---------------------------- MODULE Spec2Model ----------------------------
(***************************************************************************)
(* Model of packages/safe-core-sdk/src/safeFactory/index.ts: the           *)
(* SafeFactory class (create / init, the getters, deploySafe and the two   *)
(* private contract resolvers).                                            *)
(*                                                                         *)
(* Every async method is cut at its awaits: one action is "the awaited     *)
(* call settles and the continuation runs up to the next await".  The      *)
(* chain adapter, the contract handles and Safe.create are external: what  *)
(* they answer is a nondeterministic choice.                               *)
(*                                                                         *)
(* A JavaScript value that may be undefined is a sequence of length at     *)
(* most one: << >> is undefined, <<v>> is the value v.  An object with     *)
(* optional properties is a function whose DOMAIN is the set of the        *)
(* properties present; a present property may still hold undefined.        *)
(***************************************************************************)
EXTENDS Integers, Sequences, FiniteSets, TLC

\* ------------------------------------------------------------------ bounds

\* deploySafe calls that may be in flight on the instance at the same time
MaxCalls == 2
\* SafeFactory.create calls the caller may issue (a failed one may be retried)
MaxCreates == 2
\* Date.now() ranges over 1..MaxNow
MaxNow == 1
\* Math.floor(Math.random() * 1000) ranges over 0..MaxRand
MaxRand == 1

Calls == 1..MaxCalls

\* ------------------------------------------------------- JavaScript values

Undefined == << >>

Some(v) == <<v>>

\* obj.k : undefined when the object has no property k
Get(obj, k) == IF k \in DOMAIN obj THEN obj[k] ELSE Undefined

\* o?.k : undefined when o is undefined or has no property k
Prop(o, k) == IF o = Undefined THEN Undefined ELSE Get(o[1], k)

\* ToBoolean of a value that is undefined or a number
Truthy(v) == v # Undefined /\ v[1] # 0

\* a ?? b
Coalesce(a, b) == IF a = Undefined THEN b ELSE a[1]

\* a destructuring default, `k = d`
Default(o, k, d) == IF Get(o, k) # Undefined THEN Get(o, k)[1] ELSE d

\* { from: signerAddress, ...options }
Spread(base, o) ==
    IF o = Undefined THEN base
    ELSE [k \in DOMAIN base \cup DOMAIN o[1] |->
            IF k \in DOMAIN o[1] THEN o[1][k] ELSE base[k]]

\* --------------------------------------------------------------- constants

ZERO_ADDRESS == "0x0000"
EMPTY_DATA == "0x"
SAFE_LAST_VERSION == "1.3.0"

ErrGasConflict == "Cannot specify gas and gasLimit together in transaction options"
ErrProxyNotDeployed == "Safe Proxy contract is not deployed in the current network"
ErrSingletonNotDeployed == "Safe Proxy contract is not deployed in the current network"
ErrFactoryNotDeployed == "Safe Proxy Factory contract is not deployed in the current network"
\* thrown by validateSafeAccountConfig
ErrInvalidConfiguration == "InvalidConfiguration"
\* a rejection of an awaited adapter or contract call
ErrAdapter == "AdapterError"

\* ------------------------------------------------- the caller's arguments

Chains == {1, 4}
Versions == {"1.1.1", "1.3.0"}

\* contractNetworks[4]: the override addresses of one network
CustomContracts ==
    [k \in {"safeMasterCopyAddress", "safeProxyFactoryAddress"} |->
        IF k = "safeMasterCopyAddress" THEN Some("0xCustomSafe")
        ELSE Some("0xCustomFactory")]

ContractNetworks == [n \in {4} |-> Some(CustomContracts)]

\* SafeFactoryConfig: ethAdapter, and any of the three optional properties
SafeFactoryConfigs ==
    { [k \in {"ethAdapter"} \cup K |->
          CASE k = "ethAdapter" -> Some("ethAdapter")
            [] k = "safeVersion" -> Some(v)
            [] k = "isL1SafeMasterCopy" -> Some(TRUE)
            [] k = "contractNetworks" -> Some(ContractNetworks)] :
      K \in SUBSET {"safeVersion", "isL1SafeMasterCopy", "contractNetworks"},
      v \in Versions }

\* ------------------------------------------- collaborators outside index.ts

\* ../contracts/safeDeploymentContracts: the built-in deployment record
getSafeContractDeployment(version, chainId, isL1SafeMasterCopy) ==
    [contract |-> IF isL1SafeMasterCopy = Some(TRUE) THEN "GnosisSafe" ELSE "GnosisSafeL2",
     version |-> version, chainId |-> chainId]

getSafeProxyFactoryContractDeployment(version, chainId) ==
    [contract |-> "GnosisSafeProxyFactory", version |-> version, chainId |-> chainId]

\* the address a built-in deployment record names
DeploymentAddress(d) ==
    CASE d.contract = "GnosisSafe" /\ d.version = "1.1.1" -> "0xSafe111"
      [] d.contract = "GnosisSafe" /\ d.version = "1.3.0" -> "0xSafe130"
      [] d.contract = "GnosisSafeL2" /\ d.version = "1.1.1" -> "0xSafeL2111"
      [] d.contract = "GnosisSafeL2" /\ d.version = "1.3.0" -> "0xSafeL2130"
      [] d.contract = "GnosisSafeProxyFactory" /\ d.version = "1.1.1" -> "0xFactory111"
      [] d.contract = "GnosisSafeProxyFactory" /\ d.version = "1.3.0" -> "0xFactory130"

\* ethAdapter.getSafeContract / getSafeProxyFactoryContract: the handle is
\* bound to the override address when one is given, else to the record's
AdapterContract(p) ==
    [address |-> Coalesce(p.customContractAddress, DeploymentAddress(p.singletonDeployment)),
     safeVersion |-> p.safeVersion,
     chainId |-> p.chainId,
     deployment |-> p.singletonDeployment,
     abi |-> p.customContractAbi]

\* ------------------------------------------------------------------- state

VARIABLES
    adapterChainId,  \* the chain the adapter is connected to
    creates,         \* SafeFactory.create calls issued so far
    cpc,             \* where the create call in progress is suspended
    cargs,           \* its SafeFactoryConfig
    clocal,          \* init's locals: chainId, customContracts, the handle being verified
    fields,          \* the six private fields of the instance
    ctrace,          \* adapter calls made by the create call, in order
    cchecks,         \* its isContractDeployed calls: address and answer
    cerror,          \* the error the last create call failed with
    raised,          \* every <<throwing step, error>> of the module's own a caller has observed
    got              \* the last getter called on the instance and what it returned

cvars == <<adapterChainId, creates, cpc, cargs, clocal, fields, ctrace, cchecks, cerror, raised, got>>

NoFields ==
    [ethAdapter |-> Undefined, safeVersion |-> Undefined,
     isL1SafeMasterCopy |-> Undefined, contractNetworks |-> Undefined,
     safeProxyFactoryContract |-> Undefined, gnosisSafeContract |-> Undefined]

NoLocal == [chainId |-> Undefined, customContracts |-> Undefined, handle |-> Undefined]

InitCreate ==
    /\ adapterChainId \in Chains
    /\ creates = 0
    /\ cpc = "none"
    /\ cargs = Undefined
    /\ clocal = NoLocal
    /\ fields = NoFields
    /\ ctrace = << >>
    /\ cchecks = << >>
    /\ cerror = Undefined
    /\ raised = {}
    /\ got = Undefined

\* the create call rejects: no instance reaches the caller
CreateFails(step, err) ==
    /\ cpc' = "failed"
    /\ cerror' = Some(err)
    /\ raised' = IF err = ErrAdapter THEN raised ELSE raised \cup {<<step, err>>}

\* the adapter reconnects to another network
SwitchNetwork ==
    /\ adapterChainId' \in Chains \ {adapterChainId}
    /\ UNCHANGED <<creates, cpc, cargs, clocal, fields, ctrace, cchecks, cerror, raised, got>>

\* create, lines 84-91, and init up to its first await, lines 101-105
CreateStart(Configs) ==
    /\ cpc \in {"none", "failed"}
    /\ creates < MaxCreates
    /\ creates' = creates + 1
    /\ \E config \in Configs :
         /\ cargs' = Some(config)
         /\ fields' = [NoFields EXCEPT
              !.ethAdapter = Get(config, "ethAdapter"),
              !.safeVersion = Some(Default(config, "safeVersion", SAFE_LAST_VERSION)),
              !.isL1SafeMasterCopy = Some(Default(config, "isL1SafeMasterCopy", FALSE)),
              !.contractNetworks = Get(config, "contractNetworks")]
    /\ clocal' = NoLocal
    /\ ctrace' = <<"getChainId">>
    /\ cchecks' = << >>
    /\ cerror' = Undefined
    /\ cpc' = "getChainId"
    /\ UNCHANGED <<adapterChainId, raised, got>>

\* the argument object of getProxyFactoryContract's adapter call, lines 230-237
ProxyFactoryProps(safeVersion, chainId, customContracts) ==
    [safeVersion |-> safeVersion,
     chainId |-> chainId,
     singletonDeployment |-> getSafeProxyFactoryContractDeployment(safeVersion, chainId),
     customContractAddress |-> Prop(customContracts, "safeProxyFactoryAddress"),
     customContractAbi |-> Prop(customContracts, "safeProxyFactoryAbi")]

\* the argument object of getSafeContract's adapter call, lines 203-214
SafeContractProps(safeVersion, chainId, isL1SafeMasterCopy, customContracts) ==
    [safeVersion |-> safeVersion,
     chainId |-> chainId,
     singletonDeployment |->
         getSafeContractDeployment(SAFE_LAST_VERSION, chainId, isL1SafeMasterCopy),
     customContractAddress |-> Prop(customContracts, "safeMasterCopyAddress"),
     customContractAbi |-> Prop(customContracts, "safeMasterCopyAbi")]

\* init turning to getSafeContract first once the chain identifier is known
InitChainId_SingletonFirst ==
    /\ cpc = "getChainId"
    /\ \/ /\ clocal' = [clocal EXCEPT
                         !.chainId = Some(adapterChainId),
                         !.customContracts = Prop(fields.contractNetworks, adapterChainId),
                         !.handle =
                 Some(AdapterContract(SafeContractProps(fields.safeVersion[1],
                                                        adapterChainId,
                                                        fields.isL1SafeMasterCopy,
                                                        Prop(fields.contractNetworks, adapterChainId))))]
          /\ ctrace' = ctrace \o <<"getSafeContract", "isContractDeployed">>
          /\ cpc' = "singletonDeployed"
          /\ UNCHANGED <<cerror, raised>>
       \/ /\ CreateFails("getChainId", ErrAdapter)
          /\ UNCHANGED <<clocal, ctrace>>
    /\ UNCHANGED <<adapterChainId, creates, cargs, fields, cchecks, got>>

\* getChainId settles; init runs lines 105-106 and getProxyFactoryContract
\* up to its first await, lines 230-231
InitChainId ==
    /\ cpc = "getChainId"
    /\ \/ /\ clocal' = [clocal EXCEPT
                         !.chainId = Some(adapterChainId),
                         !.customContracts = Prop(fields.contractNetworks, adapterChainId)]
          /\ ctrace' = Append(ctrace, "getSafeProxyFactoryContract")
          /\ cpc' = "getSafeProxyFactoryContract"
          /\ UNCHANGED <<cerror, raised>>
       \/ /\ CreateFails("getChainId", ErrAdapter)
          /\ UNCHANGED <<clocal, ctrace>>
    /\ UNCHANGED <<adapterChainId, creates, cargs, fields, cchecks, got>>

\* getSafeProxyFactoryContract settles; lines 231-240
InitFactoryHandle ==
    /\ cpc = "getSafeProxyFactoryContract"
    /\ \/ /\ clocal' = [clocal EXCEPT !.handle =
                 Some(AdapterContract(ProxyFactoryProps(fields.safeVersion[1],
                                                        clocal.chainId[1],
                                                        clocal.customContracts)))]
          /\ ctrace' = Append(ctrace, "isContractDeployed")
          /\ cpc' = "factoryDeployed"
          /\ UNCHANGED <<cerror, raised>>
       \/ /\ CreateFails("getSafeProxyFactoryContract", ErrAdapter)
          /\ UNCHANGED <<clocal, ctrace>>
    /\ UNCHANGED <<adapterChainId, creates, cargs, fields, cchecks, got>>

\* isContractDeployed(factory address) settles; lines 238-244, 107, then
\* getSafeContract up to its await, lines 203-217
InitFactoryDeployed ==
    /\ cpc = "factoryDeployed"
    /\ \/ /\ cchecks' = Append(cchecks, [address |-> clocal.handle[1].address, ret |-> TRUE])
          /\ fields' = [fields EXCEPT !.safeProxyFactoryContract = clocal.handle]
          /\ clocal' = [clocal EXCEPT !.handle =
                 Some(AdapterContract(SafeContractProps(fields.safeVersion[1],
                                                        clocal.chainId[1],
                                                        fields.isL1SafeMasterCopy,
                                                        clocal.customContracts)))]
          /\ ctrace' = ctrace \o <<"getSafeContract", "isContractDeployed">>
          /\ cpc' = "singletonDeployed"
          /\ UNCHANGED <<cerror, raised>>
       \/ /\ cchecks' = Append(cchecks, [address |-> clocal.handle[1].address, ret |-> FALSE])
          /\ CreateFails("getProxyFactoryContract", ErrFactoryNotDeployed)
          /\ UNCHANGED <<fields, clocal, ctrace>>
       \/ /\ CreateFails("isContractDeployed", ErrAdapter)
          /\ UNCHANGED <<fields, clocal, ctrace, cchecks>>
    /\ UNCHANGED <<adapterChainId, creates, cargs, got>>

\* getSafeContract returning the handle whatever isContractDeployed answers
InitSingletonDeployed_NoThrow ==
    /\ cpc = "singletonDeployed"
    /\ \E ret \in BOOLEAN :
         cchecks' = Append(cchecks, [address |-> clocal.handle[1].address, ret |-> ret])
    /\ fields' = [fields EXCEPT !.gnosisSafeContract = clocal.handle]
    /\ cpc' = "ready"
    /\ UNCHANGED <<cerror, raised>>
    /\ UNCHANGED <<adapterChainId, creates, cargs, clocal, ctrace, got>>

\* isContractDeployed(singleton address) settles; lines 215-221, 113, 92
InitSingletonDeployed ==
    /\ cpc = "singletonDeployed"
    /\ \/ /\ cchecks' = Append(cchecks, [address |-> clocal.handle[1].address, ret |-> TRUE])
          /\ fields' = [fields EXCEPT !.gnosisSafeContract = clocal.handle]
          /\ cpc' = "ready"
          /\ UNCHANGED <<cerror, raised>>
       \/ /\ cchecks' = Append(cchecks, [address |-> clocal.handle[1].address, ret |-> FALSE])
          /\ CreateFails("getSafeContract", ErrSingletonNotDeployed)
          /\ UNCHANGED fields
       \/ /\ CreateFails("isContractDeployed", ErrAdapter)
          /\ UNCHANGED <<fields, cchecks>>
    /\ UNCHANGED <<adapterChainId, creates, cargs, clocal, ctrace, got>>

\* ------------------------------------------------------- deploySafe's inputs

OwnerA == "0xA11ce"
OwnerB == "0xB0b"

OwnerLists == { << >>, <<OwnerA>>, <<OwnerA, OwnerB>>, <<OwnerA, OwnerA>>, <<OwnerA, ZERO_ADDRESS>> }
Thresholds == 0..3

OptionalFields == {"to", "data", "fallbackHandler", "paymentToken", "payment", "paymentReceiver"}

\* SafeAccountConfig with the optional properties K supplied
AccountConfig(owners, threshold, K) ==
    [k \in {"owners", "threshold"} \cup K |->
        CASE k = "owners" -> Some(owners)
          [] k = "threshold" -> Some(threshold)
          [] k = "to" -> Some("0xT0")
          [] k = "data" -> Some("0xda7a")
          [] k = "fallbackHandler" -> Some("0xFa11")
          [] k = "paymentToken" -> Some("0xT0ken")
          [] k = "payment" -> Some(7)
          [] k = "paymentReceiver" -> Some("0xRece1ver")]

AccountConfigs(Ks) ==
    { AccountConfig(o, t, K) : o \in OwnerLists, t \in Thresholds, K \in Ks }

\* SafeDeploymentConfig, or none
DeploymentConfigs(Salts) ==
    {Undefined} \cup { Some([k \in {"saltNonce"} |-> Some(n)]) : n \in Salts }

\* TransactionOptions, or none: each property of Keys present or not, and
\* `from` (declared from?: string) possibly present and undefined
TransactionOptions(Keys, Froms, Gases) ==
    {Undefined} \cup
    { Some([k \in K |->
             CASE k = "from" -> f
               [] k = "gas" -> g
               [] k = "gasLimit" -> l
               [] k = "gasPrice" -> Some(5)]) :
      K \in SUBSET Keys, f \in Froms, g \in Gases, l \in Gases }

DeploySafeProps(Configs, Deployments, Options) ==
    [safeAccountConfig : Configs, safeDeploymentConfig : Deployments, options : Options]

\* one deployment request per decision the method takes
NarrowProps ==
    DeploySafeProps({AccountConfig(<<OwnerA, OwnerB>>, 2, {})},
                    DeploymentConfigs({42}),
                    TransactionOptions({"from"}, {Some("0xSender")}, {Some(21000)}))
    \cup
    DeploySafeProps({AccountConfig(<<OwnerA>>, 2, {}), AccountConfig(<<OwnerA>>, 1, OptionalFields)},
                    {Undefined},
                    TransactionOptions({}, {Undefined}, {Undefined}))
    \cup
    DeploySafeProps({AccountConfig(<<OwnerA, OwnerB>>, 1, {})},
                    DeploymentConfigs({}),
                    {Some([k \in {"gas", "gasLimit"} |-> Some(21000)])})

\* two requests that differ in every argument
ConcurrentProps ==
    { [safeAccountConfig |-> AccountConfig(<<OwnerA, OwnerB>>, 2, {}),
       safeDeploymentConfig |-> Some([k \in {"saltNonce"} |-> Some(42)]),
       options |-> Some([k \in {"from"} |-> Some("0xSender")])],
      [safeAccountConfig |-> AccountConfig(<<OwnerA>>, 1, OptionalFields),
       safeDeploymentConfig |-> Some([k \in {"saltNonce"} |-> Some(7)]),
       options |-> Undefined] }

\* requests that agree in account configuration and salt and differ in the
\* transaction options, and one with another account configuration
PairProps ==
    DeploySafeProps({AccountConfig(<<OwnerA, OwnerB>>, 2, {})},
                    {Some([k \in {"saltNonce"} |-> Some(42)])},
                    {Undefined, Some([k \in {"from"} |-> Some("0xSender")])})
    \cup
    DeploySafeProps({AccountConfig(<<OwnerA>>, 1, OptionalFields)},
                    {Some([k \in {"saltNonce"} |-> Some(42)])},
                    {Undefined})

\* every choice of the optional account properties, left out, supplied, or
\* present and undefined
SetupProps ==
    DeploySafeProps(
        { AccountConfig(<<OwnerA, OwnerB>>, 2, K) : K \in SUBSET OptionalFields }
        \cup { [AccountConfig(<<OwnerA>>, 1, OptionalFields) EXCEPT
                   !["to"] = Undefined, !["payment"] = Undefined] },
        DeploymentConfigs({42}) \ {Undefined},
        {Undefined})

\* every shape of the three arguments
WideProps ==
    DeploySafeProps(
        AccountConfigs({{}}),
        DeploymentConfigs({0, 42}),
        TransactionOptions({"from", "gas", "gasLimit", "gasPrice"},
                           {Undefined, Some("0xSender")},
                           {Some(0), Some(21000)}))

\* ./utils validateSafeAccountConfig: TRUE when it does not throw
validateSafeAccountConfig(config) ==
    LET owners == config["owners"][1]
        threshold == config["threshold"][1]
    IN  /\ Len(owners) > 0
        /\ \A i \in 1..Len(owners) : owners[i] # ZERO_ADDRESS
        /\ \A i, j \in 1..Len(owners) : i # j => owners[i] # owners[j]
        /\ threshold >= 1
        /\ threshold <= Len(owners)

\* encodeSetupCallData passing paymentToken where fallbackHandler belongs
SetupArgs_Swapped(config) ==
    << config["owners"][1],
       config["threshold"][1],
       Default(config, "to", ZERO_ADDRESS),
       Default(config, "data", EMPTY_DATA),
       Default(config, "paymentToken", ZERO_ADDRESS),
       Default(config, "fallbackHandler", ZERO_ADDRESS),
       Default(config, "payment", 0),
       Default(config, "paymentReceiver", ZERO_ADDRESS) >>

\* the argument list of encode('setup', ...), lines 138-157
SetupArgs(config) ==
    << config["owners"][1],
       config["threshold"][1],
       Default(config, "to", ZERO_ADDRESS),
       Default(config, "data", EMPTY_DATA),
       Default(config, "fallbackHandler", ZERO_ADDRESS),
       Default(config, "paymentToken", ZERO_ADDRESS),
       Default(config, "payment", 0),
       Default(config, "paymentReceiver", ZERO_ADDRESS) >>

\* GnosisSafeContract.encode: the call data of method(args)
Encode(method, args) == <<method, args>>

\* deploySafe deriving a fresh salt whatever the caller supplied
SaltNonce_Fresh(safeDeploymentConfig, default) == default

\* safeDeploymentConfig?.saltNonce ?? <default>, lines 168-169
SaltNonce_OrDefault(safeDeploymentConfig, default) ==
    IF Truthy(Prop(safeDeploymentConfig, "saltNonce"))
    THEN Prop(safeDeploymentConfig, "saltNonce")[1]
    ELSE default

SaltNonce(safeDeploymentConfig, default) ==
    Coalesce(Prop(safeDeploymentConfig, "saltNonce"), default)

\* Date.now() * 1000 + Math.floor(Math.random() * 1000), line 169
DefaultSalt(now, rand) == now * 1000 + rand

\* options?.gas && options?.gasLimit, line 171
GasConflict(options) == Truthy(Prop(options, "gas")) /\ Truthy(Prop(options, "gasLimit"))

\* the argument object of createProxy, lines 174-182
CreateProxyProps(singleton, initializer, saltNonce, signerAddress, options) ==
    [safeMasterCopyAddress |-> singleton.address,
     initializer |-> initializer,
     saltNonce |-> saltNonce,
     options |-> Spread([k \in {"from"} |-> Some(signerAddress)], options)]

\* what the external calls may answer
SignerAddresses == {"0x5igner"}
ProxyAddresses == {"0xPr0xy1", "0xPr0xy2"}
Nows == 1..MaxNow
Rands == 0..MaxRand

\* ------------------------------------------------------- deploySafe's state

VARIABLES
    pc,              \* pc[c]: where deploySafe call c is suspended
    props,           \* props[c]: its DeploySafeProps
    local,           \* local[c]: signerAddress, initializer, saltNonce, safeAddress
    trace,           \* trace[c]: the adapter and contract calls it made, in order
    proxyCalls,      \* proxyCalls[c]: the factory and argument of each createProxy
    proxyReturns,    \* proxyReturns[c]: the address each createProxy answered
    deployedChecks,  \* deployedChecks[c]: each settled isContractDeployed
    safeCreates,     \* safeCreates[c]: the argument of each Safe.create
    result           \* result[c]: the error thrown or the Safe returned

dvars == <<pc, props, local, trace, proxyCalls, proxyReturns, deployedChecks, safeCreates, result>>

vars == <<cvars, dvars>>

NoDeployLocal ==
    [signerAddress |-> Undefined, initializer |-> Undefined,
     saltNonce |-> Undefined, safeAddress |-> Undefined]

NoResult == [error |-> Undefined, safe |-> Undefined]

InitDeploy ==
    /\ pc = [c \in Calls |-> "idle"]
    /\ props = [c \in Calls |-> Undefined]
    /\ local = [c \in Calls |-> NoDeployLocal]
    /\ trace = [c \in Calls |-> << >>]
    /\ proxyCalls = [c \in Calls |-> << >>]
    /\ proxyReturns = [c \in Calls |-> << >>]
    /\ deployedChecks = [c \in Calls |-> << >>]
    /\ safeCreates = [c \in Calls |-> << >>]
    /\ result = [c \in Calls |-> NoResult]

Init == InitCreate /\ InitDeploy

\* call c rejects with err, thrown at step
DeployFails(c, step, err) ==
    /\ pc' = [pc EXCEPT ![c] = "done"]
    /\ result' = [result EXCEPT ![c].error = Some(err)]
    /\ raised' = IF err = ErrAdapter THEN raised ELSE raised \cup {<<step, err>>}

\* deploySafe asking for the signer before it validates
DeployStart_SignerFirst(c, Props) ==
    /\ cpc = "ready"
    /\ pc[c] = "idle"
    /\ \E p \in Props :
         /\ props' = [props EXCEPT ![c] = Some(p)]
         /\ trace' = [trace EXCEPT ![c] = <<"getSignerAddress">>]
         /\ IF validateSafeAccountConfig(p.safeAccountConfig)
            THEN /\ pc' = [pc EXCEPT ![c] = "getSignerAddress"]
                 /\ UNCHANGED <<result, raised>>
            ELSE DeployFails(c, "validateSafeAccountConfig", ErrInvalidConfiguration)
    /\ UNCHANGED <<local, proxyCalls, proxyReturns, deployedChecks, safeCreates>>
    /\ UNCHANGED <<adapterChainId, creates, cpc, cargs, clocal, fields, ctrace, cchecks, cerror, got>>

\* deploySafe up to its first await, lines 165-166
DeployStart(c, Props) ==
    /\ cpc = "ready"
    /\ pc[c] = "idle"
    /\ \E p \in Props :
         /\ props' = [props EXCEPT ![c] = Some(p)]
         /\ IF validateSafeAccountConfig(p.safeAccountConfig)
            THEN /\ trace' = [trace EXCEPT ![c] = <<"getSignerAddress">>]
                 /\ pc' = [pc EXCEPT ![c] = "getSignerAddress"]
                 /\ UNCHANGED <<result, raised>>
            ELSE /\ DeployFails(c, "validateSafeAccountConfig", ErrInvalidConfiguration)
                 /\ UNCHANGED trace
    /\ UNCHANGED <<local, proxyCalls, proxyReturns, deployedChecks, safeCreates>>
    /\ UNCHANGED <<adapterChainId, creates, cpc, cargs, clocal, fields, ctrace, cchecks, cerror, got>>

\* getSignerAddress settles; line 167 up to the await of encodeSetupCallData,
\* which has called encode (lines 148-157)
DeploySigner(c) ==
    /\ pc[c] = "getSignerAddress"
    /\ \/ \E signer \in SignerAddresses :
            /\ local' = [local EXCEPT
                           ![c].signerAddress = Some(signer),
                           ![c].initializer =
                               Some(Encode("setup", SetupArgs(props[c][1].safeAccountConfig)))]
            /\ trace' = [trace EXCEPT ![c] = Append(@, "encode")]
            /\ pc' = [pc EXCEPT ![c] = "encode"]
            /\ UNCHANGED <<result, raised>>
       \/ /\ DeployFails(c, "getSignerAddress", ErrAdapter)
          /\ UNCHANGED <<local, trace>>
    /\ UNCHANGED <<props, proxyCalls, proxyReturns, deployedChecks, safeCreates>>
    /\ UNCHANGED <<adapterChainId, creates, cpc, cargs, clocal, fields, ctrace, cchecks, cerror, got>>

\* deploySafe looking at the gas options only after it has submitted
DeployEncoded_SubmitsFirst(c) ==
    /\ pc[c] = "encode"
    /\ \E now \in Nows, rand \in Rands :
         LET p == props[c][1]
             saltNonce == SaltNonce(p.safeDeploymentConfig, DefaultSalt(now, rand))
         IN  /\ local' = [local EXCEPT ![c].saltNonce = Some(saltNonce)]
             /\ proxyCalls' = [proxyCalls EXCEPT ![c] = Append(@,
                    [factory |-> fields.safeProxyFactoryContract[1].address,
                     args |-> CreateProxyProps(fields.gnosisSafeContract[1],
                                               local[c].initializer[1],
                                               saltNonce,
                                               local[c].signerAddress[1],
                                               p.options)])]
             /\ trace' = [trace EXCEPT ![c] = Append(@, "createProxy")]
             /\ IF GasConflict(p.options)
                THEN DeployFails(c, "deploySafe.options", ErrGasConflict)
                ELSE /\ pc' = [pc EXCEPT ![c] = "createProxy"]
                     /\ UNCHANGED <<result, raised>>
    /\ UNCHANGED <<props, proxyReturns, deployedChecks, safeCreates>>
    /\ UNCHANGED <<adapterChainId, creates, cpc, cargs, clocal, fields, ctrace, cchecks, cerror, got>>

\* deploySafe resolving the contracts again for the chain the adapter is on
DeployEncoded_ReResolves(c) ==
    /\ pc[c] = "encode"
    /\ \/ \E now \in Nows, rand \in Rands :
            LET p == props[c][1]
                saltNonce == SaltNonce(p.safeDeploymentConfig, DefaultSalt(now, rand))
                customContracts == Prop(fields.contractNetworks, adapterChainId)
                factory == AdapterContract(ProxyFactoryProps(fields.safeVersion[1],
                                                             adapterChainId,
                                                             customContracts))
                singleton == AdapterContract(SafeContractProps(fields.safeVersion[1],
                                                               adapterChainId,
                                                               fields.isL1SafeMasterCopy,
                                                               customContracts))
            IN  IF GasConflict(p.options)
                THEN /\ DeployFails(c, "deploySafe.options", ErrGasConflict)
                     /\ local' = [local EXCEPT ![c].saltNonce = Some(saltNonce)]
                     /\ UNCHANGED <<trace, proxyCalls>>
                ELSE /\ local' = [local EXCEPT ![c].saltNonce = Some(saltNonce)]
                     /\ proxyCalls' = [proxyCalls EXCEPT ![c] = Append(@,
                            [factory |-> factory.address,
                             args |-> CreateProxyProps(singleton,
                                                       local[c].initializer[1],
                                                       saltNonce,
                                                       local[c].signerAddress[1],
                                                       p.options)])]
                     /\ trace' = [trace EXCEPT ![c] = Append(@, "createProxy")]
                     /\ pc' = [pc EXCEPT ![c] = "createProxy"]
                     /\ UNCHANGED <<result, raised>>
       \/ /\ DeployFails(c, "encode", ErrAdapter)
          /\ UNCHANGED <<local, trace, proxyCalls>>
    /\ UNCHANGED <<props, proxyReturns, deployedChecks, safeCreates>>
    /\ UNCHANGED <<adapterChainId, creates, cpc, cargs, clocal, fields, ctrace, cchecks, cerror, got>>

\* encodeSetupCallData settles; lines 168-174 up to the await of createProxy
DeployEncoded(c) ==
    /\ pc[c] = "encode"
    /\ \/ \E now \in Nows, rand \in Rands :
            LET p == props[c][1]
                saltNonce == SaltNonce(p.safeDeploymentConfig, DefaultSalt(now, rand))
            IN  IF GasConflict(p.options)
                THEN /\ DeployFails(c, "deploySafe.options", ErrGasConflict)
                     /\ local' = [local EXCEPT ![c].saltNonce = Some(saltNonce)]
                     /\ UNCHANGED <<trace, proxyCalls>>
                ELSE /\ local' = [local EXCEPT ![c].saltNonce = Some(saltNonce)]
                     /\ proxyCalls' = [proxyCalls EXCEPT ![c] = Append(@,
                            [factory |-> fields.safeProxyFactoryContract[1].address,
                             args |-> CreateProxyProps(fields.gnosisSafeContract[1],
                                                       local[c].initializer[1],
                                                       saltNonce,
                                                       local[c].signerAddress[1],
                                                       p.options)])]
                     /\ trace' = [trace EXCEPT ![c] = Append(@, "createProxy")]
                     /\ pc' = [pc EXCEPT ![c] = "createProxy"]
                     /\ UNCHANGED <<result, raised>>
       \/ /\ DeployFails(c, "encode", ErrAdapter)
          /\ UNCHANGED <<local, trace, proxyCalls>>
    /\ UNCHANGED <<props, proxyReturns, deployedChecks, safeCreates>>
    /\ UNCHANGED <<adapterChainId, creates, cpc, cargs, clocal, fields, ctrace, cchecks, cerror, got>>

\* deploySafe submitting the transaction again when createProxy rejects
DeployProxyCreated_Retry(c) ==
    /\ pc[c] = "createProxy"
    /\ \/ \E safeAddress \in ProxyAddresses :
            /\ proxyReturns' = [proxyReturns EXCEPT ![c] = Append(@, safeAddress)]
            /\ local' = [local EXCEPT ![c].safeAddress = Some(safeAddress)]
            /\ trace' = [trace EXCEPT ![c] = Append(@, "isContractDeployed")]
            /\ pc' = [pc EXCEPT ![c] = "isContractDeployed"]
            /\ UNCHANGED <<result, raised, proxyCalls>>
       \/ /\ Len(proxyCalls[c]) < 2
          /\ proxyCalls' = [proxyCalls EXCEPT ![c] = Append(@, @[1])]
          /\ trace' = [trace EXCEPT ![c] = Append(@, "createProxy")]
          /\ UNCHANGED <<pc, result, raised, local, proxyReturns>>
       \/ /\ Len(proxyCalls[c]) >= 2
          /\ DeployFails(c, "createProxy", ErrAdapter)
          /\ UNCHANGED <<local, trace, proxyReturns, proxyCalls>>
    /\ UNCHANGED <<props, deployedChecks, safeCreates>>
    /\ UNCHANGED <<adapterChainId, creates, cpc, cargs, clocal, fields, ctrace, cchecks, cerror, got>>

\* deploySafe keeping safeAddress where every call on the instance sees it
DeployProxyCreated_SharedAddress(c) ==
    /\ pc[c] = "createProxy"
    /\ \/ \E safeAddress \in ProxyAddresses :
            /\ proxyReturns' = [proxyReturns EXCEPT ![c] = Append(@, safeAddress)]
            /\ local' = [d \in Calls |-> [local[d] EXCEPT !.safeAddress = Some(safeAddress)]]
            /\ trace' = [trace EXCEPT ![c] = Append(@, "isContractDeployed")]
            /\ pc' = [pc EXCEPT ![c] = "isContractDeployed"]
            /\ UNCHANGED <<result, raised>>
       \/ /\ DeployFails(c, "createProxy", ErrAdapter)
          /\ UNCHANGED <<local, trace, proxyReturns>>
    /\ UNCHANGED <<props, proxyCalls, deployedChecks, safeCreates>>
    /\ UNCHANGED <<adapterChainId, creates, cpc, cargs, clocal, fields, ctrace, cchecks, cerror, got>>

\* createProxy settles; line 183 up to the await of isContractDeployed
DeployProxyCreated(c) ==
    /\ pc[c] = "createProxy"
    /\ \/ \E safeAddress \in ProxyAddresses :
            /\ proxyReturns' = [proxyReturns EXCEPT ![c] = Append(@, safeAddress)]
            /\ local' = [local EXCEPT ![c].safeAddress = Some(safeAddress)]
            /\ trace' = [trace EXCEPT ![c] = Append(@, "isContractDeployed")]
            /\ pc' = [pc EXCEPT ![c] = "isContractDeployed"]
            /\ UNCHANGED <<result, raised>>
       \/ /\ DeployFails(c, "createProxy", ErrAdapter)
          /\ UNCHANGED <<local, trace, proxyReturns>>
    /\ UNCHANGED <<props, proxyCalls, deployedChecks, safeCreates>>
    /\ UNCHANGED <<adapterChainId, creates, cpc, cargs, clocal, fields, ctrace, cchecks, cerror, got>>

\* deploySafe wrapping the address whatever isContractDeployed answers
DeployVerified_Unchecked(c) ==
    /\ pc[c] = "isContractDeployed"
    /\ \/ /\ \E ret \in BOOLEAN :
               deployedChecks' = [deployedChecks EXCEPT ![c] =
                   Append(@, [address |-> local[c].safeAddress[1], ret |-> ret])]
          /\ safeCreates' = [safeCreates EXCEPT ![c] =
                 Append(@, [ethAdapter |-> fields.ethAdapter,
                            safeAddress |-> local[c].safeAddress[1],
                            isL1SafeMasterCopy |-> fields.isL1SafeMasterCopy,
                            contractNetworks |-> fields.contractNetworks])]
          /\ trace' = [trace EXCEPT ![c] = Append(@, "Safe.create")]
          /\ pc' = [pc EXCEPT ![c] = "Safe.create"]
          /\ UNCHANGED <<result, raised>>
       \/ /\ DeployFails(c, "isContractDeployed", ErrAdapter)
          /\ UNCHANGED <<deployedChecks, safeCreates, trace>>
    /\ UNCHANGED <<props, local, proxyCalls, proxyReturns>>
    /\ UNCHANGED <<adapterChainId, creates, cpc, cargs, clocal, fields, ctrace, cchecks, cerror, got>>

\* deploySafe wrapping some address other than the one it has just verified
DeployVerified_OtherAddress(c) ==
    /\ pc[c] = "isContractDeployed"
    /\ \/ /\ deployedChecks' = [deployedChecks EXCEPT ![c] =
                 Append(@, [address |-> local[c].safeAddress[1], ret |-> TRUE])]
          /\ \E other \in ProxyAddresses \ {local[c].safeAddress[1]} :
                 safeCreates' = [safeCreates EXCEPT ![c] =
                     Append(@, [ethAdapter |-> fields.ethAdapter,
                                safeAddress |-> other,
                                isL1SafeMasterCopy |-> fields.isL1SafeMasterCopy,
                                contractNetworks |-> fields.contractNetworks])]
          /\ trace' = [trace EXCEPT ![c] = Append(@, "Safe.create")]
          /\ pc' = [pc EXCEPT ![c] = "Safe.create"]
          /\ UNCHANGED <<result, raised>>
       \/ /\ deployedChecks' = [deployedChecks EXCEPT ![c] =
                 Append(@, [address |-> local[c].safeAddress[1], ret |-> FALSE])]
          /\ DeployFails(c, "deploySafe.isContractDeployed", ErrProxyNotDeployed)
          /\ UNCHANGED <<safeCreates, trace>>
       \/ /\ DeployFails(c, "isContractDeployed", ErrAdapter)
          /\ UNCHANGED <<deployedChecks, safeCreates, trace>>
    /\ UNCHANGED <<props, local, proxyCalls, proxyReturns>>
    /\ UNCHANGED <<adapterChainId, creates, cpc, cargs, clocal, fields, ctrace, cchecks, cerror, got>>

\* isContractDeployed(safeAddress) settles; lines 184-192 up to the await of
\* Safe.create
DeployVerified(c) ==
    /\ pc[c] = "isContractDeployed"
    /\ \/ /\ deployedChecks' = [deployedChecks EXCEPT ![c] =
                 Append(@, [address |-> local[c].safeAddress[1], ret |-> TRUE])]
          /\ safeCreates' = [safeCreates EXCEPT ![c] =
                 Append(@, [ethAdapter |-> fields.ethAdapter,
                            safeAddress |-> local[c].safeAddress[1],
                            isL1SafeMasterCopy |-> fields.isL1SafeMasterCopy,
                            contractNetworks |-> fields.contractNetworks])]
          /\ trace' = [trace EXCEPT ![c] = Append(@, "Safe.create")]
          /\ pc' = [pc EXCEPT ![c] = "Safe.create"]
          /\ UNCHANGED <<result, raised>>
       \/ /\ deployedChecks' = [deployedChecks EXCEPT ![c] =
                 Append(@, [address |-> local[c].safeAddress[1], ret |-> FALSE])]
          /\ DeployFails(c, "deploySafe.isContractDeployed", ErrProxyNotDeployed)
          /\ UNCHANGED <<safeCreates, trace>>
       \/ /\ DeployFails(c, "isContractDeployed", ErrAdapter)
          /\ UNCHANGED <<deployedChecks, safeCreates, trace>>
    /\ UNCHANGED <<props, local, proxyCalls, proxyReturns>>
    /\ UNCHANGED <<adapterChainId, creates, cpc, cargs, clocal, fields, ctrace, cchecks, cerror, got>>

\* deploySafe rebinding the singleton handle to the Safe it has just deployed
DeploySafeCreated_Rebinds(c) ==
    /\ pc[c] = "Safe.create"
    /\ \/ /\ result' = [result EXCEPT ![c].safe =
                 Some([safeAddress |-> safeCreates[c][Len(safeCreates[c])].safeAddress])]
          /\ fields' = [fields EXCEPT !.gnosisSafeContract =
                 Some([@[1] EXCEPT !.address = safeCreates[c][Len(safeCreates[c])].safeAddress])]
          /\ pc' = [pc EXCEPT ![c] = "done"]
          /\ UNCHANGED raised
       \/ /\ DeployFails(c, "Safe.create", ErrAdapter)
          /\ UNCHANGED fields
    /\ UNCHANGED <<props, local, trace, proxyCalls, proxyReturns, deployedChecks, safeCreates>>
    /\ UNCHANGED <<adapterChainId, creates, cpc, cargs, clocal, ctrace, cchecks, cerror, got>>

\* deploySafe catching a rejection of Safe.create and returning nothing
DeploySafeCreated_Swallows(c) ==
    /\ pc[c] = "Safe.create"
    /\ \/ /\ result' = [result EXCEPT ![c].safe =
                 Some([safeAddress |-> safeCreates[c][Len(safeCreates[c])].safeAddress])]
          /\ pc' = [pc EXCEPT ![c] = "done"]
          /\ UNCHANGED raised
       \/ /\ pc' = [pc EXCEPT ![c] = "done"]
          /\ UNCHANGED <<result, raised>>
    /\ UNCHANGED <<props, local, trace, proxyCalls, proxyReturns, deployedChecks, safeCreates>>
    /\ UNCHANGED <<adapterChainId, creates, cpc, cargs, clocal, fields, ctrace, cchecks, cerror, got>>

\* Safe.create settles; line 193
DeploySafeCreated(c) ==
    /\ pc[c] = "Safe.create"
    /\ \/ /\ result' = [result EXCEPT ![c].safe =
                 Some([safeAddress |-> safeCreates[c][Len(safeCreates[c])].safeAddress])]
          /\ pc' = [pc EXCEPT ![c] = "done"]
          /\ UNCHANGED raised
       \/ DeployFails(c, "Safe.create", ErrAdapter)
    /\ UNCHANGED <<props, local, trace, proxyCalls, proxyReturns, deployedChecks, safeCreates>>
    /\ UNCHANGED <<adapterChainId, creates, cpc, cargs, clocal, fields, ctrace, cchecks, cerror, got>>

\* ------------------------------------------------------------- the getters

\* a getter returns value and touches nothing else
Returns(op, value) ==
    /\ cpc = "ready"
    /\ got' = Some([op |-> op, value |-> value])
    /\ UNCHANGED <<adapterChainId, creates, cpc, cargs, clocal, fields, ctrace, cchecks, cerror, raised>>
    /\ UNCHANGED dvars

\* lines 122-124
getEthAdapter == Returns("getEthAdapter", fields.ethAdapter)

\* lines 126-128
getSafeVersion == Returns("getSafeVersion", fields.safeVersion)

\* lines 130-132
getAddress == Returns("getAddress", Some(fields.safeProxyFactoryContract[1].address))

\* getChainId answering from the chain identifier init read
getChainId_Cached == Returns("getChainId", clocal.chainId)

\* lines 134-136
getChainId == Returns("getChainId", Some(adapterChainId))

\* --------------------------------------------------------- specifications

Create(Configs) ==
    \/ CreateStart(Configs) /\ UNCHANGED dvars
    \/ InitChainId /\ UNCHANGED dvars
    \/ InitFactoryHandle /\ UNCHANGED dvars
    \/ InitFactoryDeployed /\ UNCHANGED dvars
    \/ InitSingletonDeployed /\ UNCHANGED dvars

Getters ==
    \/ getEthAdapter
    \/ getSafeVersion
    \/ getAddress
    \/ getChainId

Deploy(c, Props) ==
    \/ DeployStart(c, Props)
    \/ DeploySigner(c)
    \/ DeployEncoded(c)
    \/ DeployProxyCreated(c)
    \/ DeployVerified(c)
    \/ DeploySafeCreated(c)

DefaultConfig == [k \in {"ethAdapter"} |-> Some("ethAdapter")]

\* the whole life of an instance: every SafeFactoryConfig, the adapter
\* changing network, a failed create tried again, and a deploySafe call
Next ==
    \/ Create(SafeFactoryConfigs)
    \/ SwitchNetwork /\ UNCHANGED dvars
    \/ Deploy(1, NarrowProps)

Spec == Init /\ [][Next]_vars

\* an instance in use: the getters, the adapter changing network and a
\* deploySafe call
OverrideConfig ==
    [k \in {"ethAdapter", "safeVersion", "contractNetworks"} |->
        CASE k = "ethAdapter" -> Some("ethAdapter")
          [] k = "safeVersion" -> Some("1.1.1")
          [] k = "contractNetworks" -> Some(ContractNetworks)]

NextGetters ==
    \/ Create({DefaultConfig, OverrideConfig})
    \/ SwitchNetwork /\ UNCHANGED dvars
    \/ Getters
    \/ Deploy(1, NarrowProps)

SpecGetters == Init /\ [][NextGetters]_vars

\* one deploySafe call over every shape of its arguments
NextDeploy ==
    \/ Create({DefaultConfig})
    \/ Deploy(1, WideProps)

SpecDeploy == Init /\ [][NextDeploy]_vars

\* one deploySafe call over every choice of the optional account properties
NextSetup ==
    \/ Create({DefaultConfig})
    \/ Deploy(1, SetupProps)

SpecSetup == Init /\ [][NextSetup]_vars

\* deploySafe calls in flight together on one instance
NextConcurrent ==
    \/ Create({DefaultConfig})
    \/ \E c \in Calls : Deploy(c, ConcurrentProps)

SpecConcurrent == Init /\ [][NextConcurrent]_vars

\* the two deploySafe calls a comparison of submissions is about
Pair == {1, 2}

\* two deploySafe calls on one instance, one after the other or overlapping
NextPair ==
    \/ Create({DefaultConfig})
    \/ \E c \in Pair : Deploy(c, PairProps)

SpecPair == Init /\ [][NextPair]_vars

\* every adapter and contract call a create or a deploySafe awaits settles
\* in the end; when a caller calls is up to the caller
NextLive ==
    \/ Create({DefaultConfig, OverrideConfig})
    \/ Deploy(1, NarrowProps)

SpecLive ==
    /\ Init
    /\ [][NextLive]_vars
    /\ WF_vars(InitChainId /\ UNCHANGED dvars)
    /\ WF_vars(InitFactoryHandle /\ UNCHANGED dvars)
    /\ WF_vars(InitFactoryDeployed /\ UNCHANGED dvars)
    /\ WF_vars(InitSingletonDeployed /\ UNCHANGED dvars)
    /\ WF_vars(DeploySigner(1))
    /\ WF_vars(DeployEncoded(1))
    /\ WF_vars(DeployProxyCreated(1))
    /\ WF_vars(DeployVerified(1))
    /\ WF_vars(DeploySafeCreated(1))

\* ------------------------------------------------------------------ claims

started(c) == props[c] # Undefined

\* the number of times op occurs in a trace
Count(t, op) == Cardinality({i \in 1..Len(t) : t[i] = op})

\* C1: a deploySafe call whose account configuration the validator rejects
\* fails with InvalidConfiguration and has made no adapter or contract call:
\* no getSignerAddress, no encode, no createProxy, no isContractDeployed, no
\* Safe.create.
C1_InvalidConfigMakesNoCall ==
    \A c \in Calls :
        (started(c) /\ ~validateSafeAccountConfig(props[c][1].safeAccountConfig)) =>
            /\ pc[c] = "done"
            /\ result[c] = [error |-> Some(ErrInvalidConfiguration), safe |-> Undefined]
            /\ trace[c] = << >>
            /\ local[c] = NoDeployLocal
            /\ proxyCalls[c] = << >>
            /\ proxyReturns[c] = << >>
            /\ deployedChecks[c] = << >>
            /\ safeCreates[c] = << >>

C1_Witness ==
    \E c \in Calls :
        /\ started(c)
        /\ ~validateSafeAccountConfig(props[c][1].safeAccountConfig)
        /\ props[c][1].options # Undefined
        /\ pc[c] = "done"

bothGasFieldsPresent(c) ==
    /\ started(c)
    /\ props[c][1].options # Undefined
    /\ {"gas", "gasLimit"} \subseteq DOMAIN props[c][1].options[1]

\* C2: a deploySafe call whose options carry both the gas and the gasLimit
\* property, whatever their values, never invokes createProxy, and once it
\* has reached the options check it has failed with the conflicting-gas
\* error.
C2_BothGasFieldsRejected ==
    \A c \in Calls :
        bothGasFieldsPresent(c) =>
            /\ proxyCalls[c] = << >>
            /\ local[c].saltNonce # Undefined =>
                   pc[c] = "done" /\ result[c].error = Some(ErrGasConflict)

\* C3: create hands out an instance only after isContractDeployed answered
\* true for the address of the factory handle and for the address of the
\* singleton handle it holds; a false answer fails the create call with a
\* not-deployed error, and while no instance has been handed out no
\* deploySafe call has started and no createProxy has been made.
C3_InstanceOnlyIfBothDeployed ==
    /\ cpc = "ready" =>
          /\ fields.safeProxyFactoryContract # Undefined
          /\ fields.gnosisSafeContract # Undefined
          /\ cchecks = << [address |-> fields.safeProxyFactoryContract[1].address, ret |-> TRUE],
                          [address |-> fields.gnosisSafeContract[1].address, ret |-> TRUE] >>
    /\ (\E i \in 1..Len(cchecks) : ~cchecks[i].ret) =>
          /\ cpc = "failed"
          /\ cerror \in {Some(ErrFactoryNotDeployed), Some(ErrSingletonNotDeployed)}
    /\ cpc # "ready" =>
          \A c \in Calls : ~started(c) /\ pc[c] = "idle" /\ proxyCalls[c] = << >>

C3_Witness ==
    /\ cpc = "ready"
    /\ creates = 2
    /\ \E x \in raised : x[1] \in {"getProxyFactoryContract", "getSafeContract"}
    /\ \E c \in Calls : proxyCalls[c] # << >>

\* C4: deploySafe calls Safe.create, and returns a Safe, only after
\* isContractDeployed answered true for the address createProxy answered in
\* the same call; on a false answer the call fails with the proxy-not-deployed
\* error, Safe.create is not called and no Safe is returned.
C4_SafeOnlyAfterVerification ==
    \A c \in Calls :
        /\ (safeCreates[c] # << >> \/ result[c].safe # Undefined) =>
              /\ Len(proxyReturns[c]) = 1
              /\ deployedChecks[c] = << [address |-> proxyReturns[c][1], ret |-> TRUE] >>
              /\ \A i \in 1..Len(safeCreates[c]) :
                     safeCreates[c][i].safeAddress = proxyReturns[c][1]
        /\ (\E i \in 1..Len(deployedChecks[c]) : ~deployedChecks[c][i].ret) =>
              /\ pc[c] = "done"
              /\ result[c] = [error |-> Some(ErrProxyNotDeployed), safe |-> Undefined]
              /\ safeCreates[c] = << >>
              /\ Count(trace[c], "Safe.create") = 0

C4_Witness ==
    \E c \in Calls :
        /\ deployedChecks[c] # << >>
        /\ ~deployedChecks[c][1].ret
        /\ pc[c] = "done"

\* C5: nothing in deploySafe is retried: in one call createProxy,
\* getSignerAddress, the setup encoding, isContractDeployed and Safe.create
\* are each invoked at most once, whatever step fails or succeeds.
C5_NothingRetried ==
    \A c \in Calls :
        /\ Len(proxyCalls[c]) <= 1
        /\ Len(proxyReturns[c]) <= 1
        /\ Len(deployedChecks[c]) <= 1
        /\ Len(safeCreates[c]) <= 1
        /\ \A op \in {"getSignerAddress", "encode", "createProxy",
                      "isContractDeployed", "Safe.create"} : Count(trace[c], op) <= 1

C5_Witness ==
    \E c \in Calls :
        /\ pc[c] = "done"
        /\ result[c].error = Some(ErrAdapter)
        /\ Len(proxyCalls[c]) = 1
        /\ proxyReturns[c] = << >>

\* C6: once create has handed out the instance, no step of any later call
\* (a getter, a deploySafe step that succeeds or fails, the adapter changing
\* network) changes any of the six private fields.
C6_FieldsImmutable == [][cpc = "ready" => fields' = fields]_vars

C6_Witness ==
    /\ cpc = "ready"
    /\ got # Undefined
    /\ \E c \in Calls : result[c].safe # Undefined
    /\ \A k \in DOMAIN fields \ {"contractNetworks"} : fields[k] # Undefined

\* the salts the time-plus-random default can produce
DefaultSalts == { DefaultSalt(now, rand) : now \in Nows, rand \in Rands }

\* the options createProxy must receive in call c: the caller's properties
\* as they are, and the signer as `from` when the caller's have no `from`
ownOptions(c, sent) ==
    LET o == props[c][1].options
        own == IF o = Undefined THEN << >> ELSE o[1]
    IN  /\ DOMAIN sent = {"from"} \cup DOMAIN own
        /\ \A k \in DOMAIN own : sent[k] = own[k]
        /\ "from" \notin DOMAIN own => sent["from"] = local[c].signerAddress

\* C7: deploySafe calls in flight together do not interfere: each call's
\* createProxy receives the initializer, the salt and the merged options of
\* that call's own arguments, and the address that call verifies, hands to
\* Safe.create and returns is the one its own createProxy answered.
C7_CallsDoNotInterfere ==
    \A c \in Calls :
        /\ \A i \in 1..Len(proxyCalls[c]) :
             LET sent == proxyCalls[c][i].args
                 salt == Prop(props[c][1].safeDeploymentConfig, "saltNonce")
             IN  /\ sent.initializer =
                        <<"setup", SetupArgs(props[c][1].safeAccountConfig)>>
                 /\ IF salt = Undefined THEN sent.saltNonce \in DefaultSalts
                                        ELSE sent.saltNonce = salt[1]
                 /\ ownOptions(c, sent.options)
        /\ \A i \in 1..Len(deployedChecks[c]) :
             deployedChecks[c][i].address = proxyReturns[c][1]
        /\ \A i \in 1..Len(safeCreates[c]) :
             safeCreates[c][i].safeAddress = proxyReturns[c][1]
        /\ result[c].safe # Undefined =>
             result[c].safe[1].safeAddress = proxyReturns[c][1]

C7_Witness ==
    \E c, d \in Calls :
        /\ c # d
        /\ pc[c] = "Safe.create"
        /\ pc[d] = "isContractDeployed"
        /\ props[c] # props[d]
        /\ proxyReturns[c] # proxyReturns[d]

\* the steps of index.ts that throw an error of their own
OwnThrowSteps ==
    {"validateSafeAccountConfig", "deploySafe.options", "deploySafe.isContractDeployed",
     "getSafeContract", "getProxyFactoryContract"}

\* C8: two different failure steps of the module never raise the same
\* error: the errors a caller has observed from different throwing steps
\* (singleton not deployed, factory not deployed, conflicting gas options,
\* new proxy not deployed, invalid configuration) are pairwise different.
C8_ErrorsDistinct ==
    \A x, y \in raised :
        (x[1] \in OwnThrowSteps /\ y[1] \in OwnThrowSteps /\ x[1] # y[1]) => x[2] # y[2]

\* C9: the salt createProxy receives is the caller's saltNonce whenever a
\* deployment config is given, 0 included; only without one is it a
\* time-plus-random default.
C9_SaltIsCallersSalt ==
    \A c \in Calls :
        \A i \in 1..Len(proxyCalls[c]) :
            LET salt == Prop(props[c][1].safeDeploymentConfig, "saltNonce")
            IN  IF salt = Undefined
                THEN proxyCalls[c][i].args.saltNonce \in DefaultSalts
                ELSE proxyCalls[c][i].args.saltNonce = salt[1]

C9_Witness ==
    \E c \in Calls :
        /\ proxyCalls[c] # << >>
        /\ props[c][1].safeDeploymentConfig # Undefined
        /\ Prop(props[c][1].safeDeploymentConfig, "saltNonce") = Some(0)
        /\ proxyCalls[c][1].args.saltNonce = 0

\* C10: the options createProxy receives are the caller's with the sender
\* defaulted: `from` is the signer's address whenever the caller's options
\* supply no sender, the caller's sender whenever they supply one, and gas,
\* gasLimit and gasPrice are the caller's, present or absent.
C10_SenderDefaulted ==
    \A c \in Calls :
        \A i \in 1..Len(proxyCalls[c]) :
            LET o == props[c][1].options
                sent == proxyCalls[c][i].args.options
            IN  /\ Prop(o, "from") = Undefined => Get(sent, "from") = local[c].signerAddress
                /\ Prop(o, "from") # Undefined => Get(sent, "from") = Prop(o, "from")
                /\ \A k \in {"gas", "gasLimit", "gasPrice"} :
                       /\ k \in DOMAIN sent <=> (o # Undefined /\ k \in DOMAIN o[1])
                       /\ Get(sent, k) = Prop(o, k)

\* the value the caller supplied for property k, or neutral when there is none
supplied(config, k, neutral) ==
    IF k \in DOMAIN config /\ config[k] # Undefined THEN config[k][1] ELSE neutral

\* C11: the setup payload is encoded from exactly eight arguments, in the
\* order owners, threshold, to, data, fallbackHandler, paymentToken, payment,
\* paymentReceiver; owners and threshold are the caller's, and each optional
\* one is the caller's value when supplied and else the zero address (the
\* four addresses), empty data (data) or 0 (payment).
C11_SetupPayload ==
    \A c \in Calls :
        local[c].initializer # Undefined =>
            LET config == props[c][1].safeAccountConfig
                method == local[c].initializer[1][1]
                args == local[c].initializer[1][2]
            IN  /\ method = "setup"
                /\ Len(args) = 8
                /\ args[1] = config["owners"][1]
                /\ args[2] = config["threshold"][1]
                /\ args[3] = supplied(config, "to", "0x0000")
                /\ args[4] = supplied(config, "data", "0x")
                /\ args[5] = supplied(config, "fallbackHandler", "0x0000")
                /\ args[6] = supplied(config, "paymentToken", "0x0000")
                /\ args[7] = supplied(config, "payment", 0)
                /\ args[8] = supplied(config, "paymentReceiver", "0x0000")
                /\ \A i \in 1..Len(proxyCalls[c]) :
                       proxyCalls[c][i].args.initializer = local[c].initializer[1]

C11_Witness ==
    \E c \in Calls :
        /\ proxyCalls[c] # << >>
        /\ LET config == props[c][1].safeAccountConfig
           IN  /\ {"fallbackHandler", "paymentToken"} \subseteq DOMAIN config
               /\ "paymentReceiver" \notin DOMAIN config
               /\ "data" \notin DOMAIN config

\* C12: getChainId returns the chain identifier the adapter reports when it
\* is called, not the one read at construction, and getAddress returns the
\* address of the factory handle resolved and verified at construction,
\* whatever network the adapter is on by then.
C12_GettersAfterSwitch ==
    [][got' # got =>
          /\ got'[1].op = "getChainId" => got'[1].value = Some(adapterChainId')
          /\ got'[1].op = "getAddress" =>
                 /\ got'[1].value = Some(cchecks[1].address)
                 /\ got'[1].value = Some(fields.safeProxyFactoryContract[1].address)]_vars

\* getChainId has answered with another chain than the one read at construction
C12_Witness ==
    /\ got # Undefined
    /\ got[1].op = "getChainId"
    /\ got[1].value # clocal.chainId
    /\ got[1].value = Some(adapterChainId)

\* C13: during construction the singleton contract is resolved and verified
\* first and the proxy-factory contract second: by the time the factory
\* resolution is requested, getSafeContract and the isContractDeployed check
\* on the singleton address have already happened.
C13_SingletonFirst ==
    \A i \in 1..Len(ctrace) :
        ctrace[i] = "getSafeProxyFactoryContract" =>
            \E j, k \in 1..Len(ctrace) :
                /\ j < k /\ k < i
                /\ ctrace[j] = "getSafeContract"
                /\ ctrace[k] = "isContractDeployed"

\* the adapter calls of a whole construction, in the order init makes them
InitOrder ==
    <<"getChainId", "getSafeProxyFactoryContract", "isContractDeployed",
      "getSafeContract", "isContractDeployed">>

\* C13, amended: during construction the proxy-factory contract is resolved
\* and verified first and the singleton second: when getSafeContract is
\* requested, exactly one isContractDeployed check has been answered, it was
\* made on the factory handle's address and it answered true.
C13_FactoryFirst ==
    /\ Len(ctrace) <= Len(InitOrder)
    /\ ctrace = SubSeq(InitOrder, 1, Len(ctrace))
    /\ \A i \in 1..Len(ctrace) :
           ctrace[i] = "getSafeContract" =>
               /\ Len(cchecks) >= 1
               /\ cchecks[1].ret
               /\ fields.safeProxyFactoryContract # Undefined
               /\ cchecks[1].address = fields.safeProxyFactoryContract[1].address
    /\ cpc = "singletonDeployed" => Len(cchecks) = 1
    /\ Len(cchecks) = 2 =>
           cchecks[2].address = clocal.handle[1].address

\* a construction that resolved and verified both contracts
C13_Witness ==
    /\ cpc = "ready"
    /\ ctrace = InitOrder
    /\ Len(cchecks) = 2
    /\ cchecks[1].address # cchecks[2].address

\* the protocol version the create call in progress asked for
requestedVersion ==
    IF "safeVersion" \in DOMAIN cargs[1] /\ cargs[1]["safeVersion"] # Undefined
    THEN cargs[1]["safeVersion"][1]
    ELSE "1.3.0"

\* C14: for both the singleton and the proxy factory, the built-in
\* deployment record handed to the adapter is the one looked up for the
\* protocol version requested in create (the latest only when none is
\* requested) and for the chain identifier read at construction.
C14_RecordForRequestedVersion ==
    \A f \in {"safeProxyFactoryContract", "gnosisSafeContract"} :
        fields[f] # Undefined =>
            /\ fields[f][1].deployment.version = requestedVersion
            /\ fields[f][1].deployment.chainId = clocal.chainId[1]

\* the adapter and contract calls of a whole deploySafe, in order
DeployOrder ==
    <<"getSignerAddress", "encode", "createProxy", "isContractDeployed", "Safe.create">>

IsPrefix(t, u) == Len(t) <= Len(u) /\ t = SubSeq(u, 1, Len(t))

\* C15: the steps of deploySafe run in the fixed order validate,
\* getSignerAddress, encode, salt, gas check, createProxy, isContractDeployed,
\* Safe.create, each at most once, and the path fails fast: the step in
\* which a call fails starts no further step, every earlier step has been
\* performed exactly once, and a completed call performs nothing more.
C15_FixedOrderFailFast ==
    [][\A c \in Calls :
          LET config == props'[c][1].safeAccountConfig
              options == props'[c][1].options
          IN  /\ IsPrefix(trace'[c], DeployOrder)
              \* validation comes before the first call
              /\ trace'[c] # << >> => validateSafeAccountConfig(config)
              \* the salt is computed after encode has answered and before
              \* the gas options are looked at
              /\ local'[c].saltNonce # Undefined =>
                     /\ Len(trace'[c]) >= 2
                     /\ local'[c].initializer # Undefined
              /\ result'[c].error = Some(ErrGasConflict) =>
                     /\ local'[c].saltNonce # Undefined
                     /\ trace'[c] = SubSeq(DeployOrder, 1, 2)
              \* createProxy comes after the salt and the gas check
              /\ Len(trace'[c]) >= 3 =>
                     /\ local'[c].saltNonce # Undefined
                     /\ ~GasConflict(options)
                     /\ Len(proxyCalls'[c]) = 1
              /\ Len(trace'[c]) >= 4 <=> Len(proxyReturns'[c]) = 1
              /\ Len(trace'[c]) >= 5 <=> Len(safeCreates'[c]) = 1
              /\ Len(safeCreates'[c]) = 1 =>
                     Len(deployedChecks'[c]) = 1 /\ deployedChecks'[c][1].ret
              \* a failing step starts nothing, and it is the step awaited
              /\ (pc[c] # "done" /\ pc'[c] = "done" /\ result'[c].error # Undefined) =>
                     /\ trace'[c] = trace[c]
                     /\ proxyCalls'[c] = proxyCalls[c]
                     /\ safeCreates'[c] = safeCreates[c]
                     /\ trace[c] # << >> => trace[c][Len(trace[c])] = pc[c]
                     /\ trace[c] = << >> => pc[c] = "idle"
              \* nothing happens after the call has completed
              /\ pc[c] = "done" =>
                     /\ pc'[c] = "done"
                     /\ trace'[c] = trace[c]
                     /\ proxyCalls'[c] = proxyCalls[c]
                     /\ deployedChecks'[c] = deployedChecks[c]
                     /\ safeCreates'[c] = safeCreates[c]
                     /\ result'[c] = result[c]]_vars

\* a call that failed at the deployment check, after four calls and before
\* Safe.create
C15_Witness ==
    \E c \in Calls :
        /\ pc[c] = "done"
        /\ result[c].error = Some(ErrProxyNotDeployed)
        /\ trace[c] = SubSeq(DeployOrder, 1, 4)
        /\ safeCreates[c] = << >>

\* what the factory derives the new address from
Triple(call) == <<call.args.safeMasterCopyAddress, call.args.initializer, call.args.saltNonce>>

explicitSalt(c) == Prop(props[c][1].safeDeploymentConfig, "saltNonce")

\* C16: two deploySafe calls on the same instance with identical account
\* configuration and the same explicit salt submit identical (singleton
\* address, initializer payload, salt) triples to createProxy, whatever
\* their transaction options are and however the calls interleave.
C16_SameInputsSameTriple ==
    \A c, d \in Calls :
        ( /\ proxyCalls[c] # << >>
          /\ proxyCalls[d] # << >>
          /\ props[c][1].safeAccountConfig = props[d][1].safeAccountConfig
          /\ explicitSalt(c) # Undefined
          /\ explicitSalt(c) = explicitSalt(d) )
        => Triple(proxyCalls[c][1]) = Triple(proxyCalls[d][1])

\* two calls with the same configuration and salt and different options
\* have both submitted
C16_Witness ==
    \E c, d \in Calls :
        /\ c # d
        /\ proxyCalls[c] # << >>
        /\ proxyCalls[d] # << >>
        /\ props[c][1].safeAccountConfig = props[d][1].safeAccountConfig
        /\ explicitSalt(c) = Some(42)
        /\ explicitSalt(d) = Some(42)
        /\ props[c][1].options # props[d][1].options
        /\ proxyCalls[c][1].args.options # proxyCalls[d][1].args.options

\* create has completed: with an instance, or with the failure it met
createCompleted ==
    \/ /\ cpc = "ready"
       /\ cerror = Undefined
       /\ fields.safeProxyFactoryContract # Undefined
       /\ fields.gnosisSafeContract # Undefined
    \/ /\ cpc = "failed"
       /\ cerror # Undefined

\* deploySafe call c has completed: with a Safe, or with the failure it met
deployCompleted(c) ==
    /\ pc[c] = "done"
    /\ (result[c].safe # Undefined) # (result[c].error # Undefined)

\* C17: when every adapter and contract call eventually returns or fails,
\* every create call and every deploySafe call eventually completes, with a
\* result or with the failure; none stays suspended, and a call completes
\* with a result only if every call it awaited answered.
C17_EveryCallCompletes ==
    /\ (cpc \notin {"none", "ready", "failed"}) ~> createCompleted
    /\ \A c \in Calls : started(c) ~> deployCompleted(c)
    /\ [](cpc = "ready" => ctrace = InitOrder /\ Len(cchecks) = 2)
    /\ [](\A c \in Calls :
             result[c].safe # Undefined =>
                 /\ trace[c] = DeployOrder
                 /\ result[c].error = Undefined)

\* a deploySafe call has completed with the rejection of createProxy
C17_Witness ==
    /\ cpc = "ready"
    /\ \E c \in Calls :
           /\ pc[c] = "done"
           /\ result[c].error = Some(ErrAdapter)
           /\ trace[c] = SubSeq(DeployOrder, 1, 3)

\* C18: addresses are threaded through deploySafe without substitution: the
\* singleton address submitted to createProxy is the address of the
\* singleton handle whose code presence was verified at construction, and
\* the address checked after submission and handed to Safe.create is the
\* address that createProxy call returned.
C18_AddressesThreaded ==
    \A c \in Calls :
        /\ \A i \in 1..Len(proxyCalls[c]) :
               /\ Len(cchecks) = 2
               /\ cchecks[2].ret
               /\ proxyCalls[c][i].args.safeMasterCopyAddress = cchecks[2].address
        /\ \A i \in 1..Len(deployedChecks[c]) :
               /\ i <= Len(proxyReturns[c])
               /\ deployedChecks[c][i].address = proxyReturns[c][i]
        /\ \A i \in 1..Len(safeCreates[c]) :
               /\ i <= Len(deployedChecks[c])
               /\ deployedChecks[c][i].ret
               /\ safeCreates[c][i].safeAddress = deployedChecks[c][i].address
               /\ safeCreates[c][i].safeAddress = proxyReturns[c][i]
        /\ result[c].safe # Undefined =>
               result[c].safe[1].safeAddress = proxyReturns[c][1]

\* a Safe was returned for the address createProxy answered, deployed from
\* an override singleton
C18_Witness ==
    \E c \in Calls :
        /\ result[c].safe # Undefined
        /\ proxyReturns[c] = <<"0xPr0xy2">>
        /\ safeCreates[c][1].safeAddress = "0xPr0xy2"
        /\ proxyCalls[c][1].args.safeMasterCopyAddress = "0xCustomSafe"

\* the create call was given an override table with an entry for chainId
hasOverride(config, chainId) ==
    /\ "contractNetworks" \in DOMAIN config
    /\ chainId = 4

\* C19: the override entry used for resolution is the one keyed by the chain
\* identifier read from the adapter during construction, and deploySafe
\* never re-resolves: whatever chain the adapter reports by then, deploySafe
\* submits to the factory handle and with the singleton address that were
\* resolved for the construction-time chain.
C19_ConstructionChainOnly ==
    [][/\ (cpc = "getChainId" /\ cpc' = "getSafeProxyFactoryContract") =>
              /\ clocal'.chainId = Some(adapterChainId)
              /\ clocal'.customContracts =
                     IF hasOverride(cargs[1], adapterChainId)
                     THEN Some(CustomContracts) ELSE Undefined
       /\ fields'.safeProxyFactoryContract # Undefined =>
              /\ fields'.safeProxyFactoryContract[1].chainId = clocal'.chainId[1]
              /\ fields'.safeProxyFactoryContract[1].address = "0xCustomFactory"
                     <=> hasOverride(cargs'[1], clocal'.chainId[1])
       /\ fields'.gnosisSafeContract # Undefined =>
              /\ fields'.gnosisSafeContract[1].chainId = clocal'.chainId[1]
              /\ fields'.gnosisSafeContract[1].address = "0xCustomSafe"
                     <=> hasOverride(cargs'[1], clocal'.chainId[1])
       /\ \A c \in Calls :
              Len(proxyCalls'[c]) > Len(proxyCalls[c]) =>
                  LET call == proxyCalls'[c][Len(proxyCalls'[c])]
                  IN  /\ call.factory = cchecks[1].address
                      /\ call.args.safeMasterCopyAddress = cchecks[2].address
                      /\ call.factory = "0xCustomFactory"
                             <=> hasOverride(cargs[1], clocal.chainId[1])
                      /\ call.args.safeMasterCopyAddress = "0xCustomSafe"
                             <=> hasOverride(cargs[1], clocal.chainId[1])]_vars

\* a submission to the built-in contracts of the construction-time chain
\* while the adapter is on the chain the override table has an entry for
C19_Witness ==
    \E c \in Calls :
        /\ pc[c] = "createProxy"
        /\ "contractNetworks" \in DOMAIN cargs[1]
        /\ clocal.chainId = Some(1)
        /\ adapterChainId = 4
        /\ proxyCalls[c][1].factory # "0xCustomFactory"
        /\ proxyCalls[c][1].args.safeMasterCopyAddress # "0xCustomSafe"

=============================================================================
